---- MODULE Spec2Model ----
(***************************************************************************)
(* Model of src/main.py: the news pollers, the deduplication filter of     *)
(* process_articles_batch, the classification call, the importance filter, *)
(* ConnectionManager (connect / disconnect / broadcast) and the lifespan   *)
(* shutdown.                                                               *)
(*                                                                         *)
(* Scheduling is asyncio's: one thread, tasks switch only at an await.     *)
(* Every action below is the code that runs between two awaits of one      *)
(* task.  CancelledError is a BaseException (Python >= 3.8): it passes     *)
(* "except Exception" and is caught by a bare "except:".                   *)
(***************************************************************************)
EXTENDS Integers, Sequences, FiniteSets, TLC

\* ------------------------------------------------------------------ bounds
\* A run is one of a few scenarios, each with its own budget of outside events.
PipeFetches == 2    \* pipeline scenario: HTTP fetches started, all pollers together
PipeBatch   == 2    \*   articles in one fetched batch
PipeResults == 2    \*   entries in one classification reply
HubFetches  == 1    \* hub scenario: HTTP fetches started
HubBatch    == 1    \*   articles in one fetched batch
HubResults  == 1    \*   entries in one classification reply
HubConns    == 3    \*   websockets that ever connect
HubTests    == 1    \*   requests to /api/test-news
StopFetches == 1    \* shutdown scenario: HTTP fetches started
StopBatch   == 1    \*   articles in one fetched batch
StopResults == 1    \*   entries in one classification reply
StopConns   == 1    \*   websockets that ever connect
StopConfigs == 1    \*   requests to /api/configure
SoloConns   == 2    \* hub-alone scenario (no poller has a key): websockets
SoloTests   == 2    \*   requests to /api/test-news
RoundFetches == 2   \* rounds scenario (one poller, detailed record): fetches
RoundBatch   == 2   \*   articles in one fetched batch
RoundResults == 2   \*   entries in one classification reply
OutBatch    == 1    \* outage scenario (one source always fails): batch size
OutResults  == 1    \*   entries in one classification reply
CfgFetches  == 2    \* configure scenario: HTTP fetches started
CfgBatch    == 1    \*   articles in one fetched batch
CfgResults  == 1    \*   entries in one classification reply
CfgConfigs  == 2    \*   requests to /api/configure

Max(a, b) == IF a >= b THEN a ELSE b
MaxConn    == Max(HubConns, Max(StopConns, SoloConns))

\* keys: which of FINNHUB_API_KEY / POLYGON_API_KEY are set; client: whether
\* OPENAI_API_KEY is set.  outage: the sources whose every fetch fails.
\* count: fetches are counted against the budget.  detail: the step record
\* keeps the whole classification reply, and the run remembers which URLs
\* broadcast was called for.
Scenario(f, b, r, c, t, g, stop, keys, client) ==
    [fetches |-> f, batch |-> b, results |-> r, conns |-> c, tests |-> t,
     configs |-> g, stop |-> stop, keys |-> keys, client |-> client,
     outage |-> {}, count |-> TRUE, detail |-> FALSE]

BothKeys == [p \in {"finnhub", "polygon"} |-> TRUE]
OnlyPolygon == [p \in {"finnhub", "polygon"} |-> p = "polygon"]
NoKeys == [p \in {"finnhub", "polygon"} |-> FALSE]

PipelineScenarios ==
    { Scenario(PipeFetches, PipeBatch, PipeResults, 0, 0, 0, FALSE, BothKeys, TRUE),
      Scenario(PipeFetches, PipeBatch, PipeResults, 0, 0, 0, FALSE, BothKeys, FALSE) }

HubScenarios ==
    { Scenario(HubFetches, HubBatch, HubResults, HubConns, HubTests, 0, FALSE, BothKeys, TRUE) }

StopScenarios ==
    { Scenario(StopFetches, StopBatch, StopResults, StopConns, 0, StopConfigs, TRUE, BothKeys, TRUE),
      Scenario(StopFetches, StopBatch, StopResults, StopConns, 0, 0, TRUE, OnlyPolygon, TRUE) }

SoloScenarios ==
    { Scenario(0, 0, 0, SoloConns, SoloTests, 0, FALSE, NoKeys, TRUE) }

\* One poller alone, no subscriber.
RoundScenarios ==
    { [Scenario(RoundFetches, RoundBatch, RoundResults, 0, 0, 0, FALSE,
                OnlyPolygon, client) EXCEPT !.detail = TRUE] : client \in BOOLEAN }

\* Finnhub is down for good; fetches are not counted, so the run never ends.
OutageScenarios ==
    { [Scenario(1, OutBatch, OutResults, 0, 0, 0, FALSE, BothKeys, client)
          EXCEPT !.outage = {"finnhub"}, !.count = FALSE, !.detail = TRUE] :
      client \in BOOLEAN }

\* /api/configure requests while one poller runs, with and without a client.
ConfigScenarios ==
    { Scenario(CfgFetches, CfgBatch, CfgResults, 0, 0, CfgConfigs, FALSE,
               OnlyPolygon, client) : client \in BOOLEAN }

Scenarios == PipelineScenarios \cup HubScenarios \cup StopScenarios

\* --------------------------------------------------------------- constants
\* Scores are kept in tenths: 70 is 7.0.
IMPORTANCE_THRESHOLD == 70

\* The two sleeps of a poller, in seconds.
POLL_INTERVAL_SECONDS == 60
RETRY_INTERVAL_SECONDS == 30

Pollers == {"finnhub", "polygon"}
TestTask == "test"
Tasks == Pollers \cup {TestTask}
Conns == 1..MaxConn

Min(S) == CHOOSE x \in S : \A y \in S : x <= y

\* ------------------------------------------------------------ text helpers
\* Text is a sequence of one-character strings; <<>> is '' (or a missing key).
LowerChar(c) ==
    CASE c = "F" -> "f"
      [] c = "E" -> "e"
      [] c = "D" -> "d"
      [] c = "G" -> "g"
      [] OTHER -> c

Lower(s) == [i \in 1..Len(s) |-> LowerChar(s[i])]

RECURSIVE LStrip(_)
LStrip(s) == IF s # <<>> /\ Head(s) = " " THEN LStrip(Tail(s)) ELSE s

RECURSIVE RStrip(_)
RStrip(s) ==
    IF s # <<>> /\ s[Len(s)] = " " THEN RStrip(SubSeq(s, 1, Len(s) - 1)) ELSE s

Strip(s) == RStrip(LStrip(s))

\* Python's "a or b": b when a is empty or missing (text, then URL strings).
OrElse(a, b) == IF a # <<>> THEN a ELSE b

OrElseUrl(a, b) == IF a # "" THEN a ELSE b

\* md5 over the text; modelled as injective, so the digest is the text itself.
get_content_hash_NoNormalise(headline, summary) == headline \o <<" ">> \o summary

get_content_hash(headline, summary) ==
    Strip(Lower(headline)) \o <<" ">> \o Strip(Lower(summary))

\* ------------------------------------------------------------ raw articles
Raw(h, t, s, d, u, au) ==
    [headline |-> h, title |-> t, summary |-> s, description |-> d,
     url |-> u, article_url |-> au]

ArticleFed      == Raw(<<"F","e","d">>, <<>>, <<>>, <<>>, "u1", "")
\* the same story under the other key aliases, another URL, other case/spacing
ArticleFedAlias == Raw(<<>>, <<" ","f","E","D">>, <<>>, <<" ">>, "", "u2")
\* another story under the URL of ArticleFed
ArticleSameUrl  == Raw(<<"G">>, <<>>, <<>>, <<>>, "u1", "")
\* no headline under either alias
ArticleNoHead   == Raw(<<>>, <<>>, <<"G">>, <<>>, "u3", "")
\* no URL under either alias
ArticleNoUrl    == Raw(<<"G">>, <<>>, <<>>, <<>>, "", "")

Pool == {ArticleFed, ArticleFedAlias, ArticleSameUrl, ArticleNoHead, ArticleNoUrl}

SeqsUpTo(S, n) == UNION {[1..k -> S] : k \in 0..n}

\* What a fetch can return: any list of at most n raw articles.
Batches(n) == SeqsUpTo(Pool, n)

HeadlineOf(a) == OrElse(a.headline, a.title)
SummaryOf(a)  == OrElse(a.summary, a.description)
UrlOf(a)      == OrElseUrl(a.url, a.article_url)

\* "if not headline or not article_url: continue" lets these through
IsValid_HeadlineOnly(a) == HeadlineOf(a) # <<>>

IsValid(a) == HeadlineOf(a) # <<>> /\ UrlOf(a) # ""

\* The lower-cased, trimmed headline and summary, kept apart: what two
\* articles must share to be "the same content".
NormalKey(a) == << Strip(Lower(HeadlineOf(a))), Strip(Lower(SummaryOf(a))) >>

\* ------------------------------------------------------ deduplication filter
\* "article_url in seen_urls"
UrlSeen_Never(url, su) == FALSE

UrlSeen(url, su) == url \in su

\* is_duplicate_content: the verdict and the fingerprint set it leaves behind.
is_duplicate_content_NoRecord(headline, summary, hashes) ==
    [dup |-> get_content_hash(headline, summary) \in hashes, hashes |-> hashes]

is_duplicate_content(headline, summary, hashes) ==
    LET content_hash == get_content_hash(headline, summary)
    IN  IF content_hash \in hashes
        THEN [dup |-> TRUE, hashes |-> hashes]
        ELSE [dup |-> FALSE, hashes |-> hashes \cup {content_hash}]

\* "seen_urls.add(article_url)"
AddSeenUrl_Forgot(su, url) == su

AddSeenUrl(su, url) == su \cup {url}

\* One pass of the loop body for one raw article.  d is the loop's state:
\* su/sh the two seen sets, na the new_articles list, log one line per article
\* (what the sets held when the article was looked at, and the verdict).
\* "if article_url in seen_urls: continue": the fingerprint set the skipped
\* article leaves behind.
OnUrlDuplicate_Records(sh, fp) == sh \cup {fp}

OnUrlDuplicate(sh, fp) == sh

\* "if is_duplicate_content(headline, summary): ... continue": the URL set the
\* skipped article leaves behind.
OnContentDuplicate_Records(su, url) == su \cup {url}

OnContentDuplicate(su, url) == su

\* "new_articles.append(article)"
Collect_Front(na, a) == <<a>> \o na

Collect(na, a) == Append(na, a)

\* touched: the article's pass through the loop changed one of the seen sets.
DedupOne(d, a) ==
    LET headline == HeadlineOf(a)
        summary  == SummaryOf(a)
        url      == UrlOf(a)
        fp       == get_content_hash(headline, summary)
        line(adm, su, sh) ==
            [raw |-> a, valid |-> headline # <<>> /\ url # "",
             url |-> url, fp |-> fp,
             urlSeen |-> url \in d.su, fpSeen |-> fp \in d.sh,
             admitted |-> adm, touched |-> su # d.su \/ sh # d.sh]
        skip     == [d EXCEPT !.log = Append(@, line(FALSE, d.su, d.sh))]
    IN  IF ~IsValid(a) THEN skip
        ELSE IF UrlSeen(url, d.su)
        THEN LET sh2 == OnUrlDuplicate(d.sh, fp)
             IN  [d EXCEPT !.sh = sh2,
                           !.log = Append(@, line(FALSE, d.su, sh2))]
        ELSE LET r == is_duplicate_content(headline, summary, d.sh)
             IN  IF r.dup
                 THEN LET su3 == OnContentDuplicate(d.su, url)
                      IN  [d EXCEPT !.su = su3, !.sh = r.hashes,
                                    !.log = Append(@, line(FALSE, su3, r.hashes))]
                 ELSE LET su2 == AddSeenUrl(d.su, url)
                      IN  [su  |-> su2,
                           sh  |-> r.hashes,
                           na  |-> Collect(d.na, a),
                           log |-> Append(d.log, line(TRUE, su2, r.hashes))]

RECURSIVE DedupFrom(_, _, _)
DedupFrom(articles, i, d) ==
    IF i > Len(articles) THEN d
    ELSE DedupFrom(articles, i + 1, DedupOne(d, articles[i]))

Dedup(articles, su, sh) ==
    DedupFrom(articles, 1, [su |-> su, sh |-> sh, na |-> <<>>, log |-> <<>>])

\* --------------------------------------------------- classification replies
\* A value of a reply entry: a number, a missing key, or something float()
\* rejects.  is_english is "true", "false" or "absent".
Num(n) == [kind |-> "number", val |-> n]
NoNum  == [kind |-> "absent", val |-> 0]
BadNum == [kind |-> "bad", val |-> 0]

Res(id, score, eng) ==
    [article_id |-> id, importance_score |-> score, is_english |-> eng]

\* classify_news_batch_openai: entries validated against ArticleClassification,
\* so every field is present and typed.
StructuredPool ==
    { Res(Num(1), Num(95), "true"),  Res(Num(1), Num(69), "true"),
      Res(Num(1), Num(95), "false"), Res(Num(2), Num(70), "true") }

\* classify_news_batch_llama: json.loads of the reply, returned unchecked.
LoosePool ==
    { Res(Num(1), Num(95), "true"),  Res(Num(2), Num(70), "true"),
      Res(NoNum, Num(95), "absent"), Res(NoNum, NoNum, "true"),
      Res(NoNum, Num(95), "false"),  Res(NoNum, BadNum, "true") }

\* What the backend chosen by classify_news_batch can return: any list of at
\* most n entries, or [] after an error.
Replies(backend, n) ==
    SeqsUpTo(IF backend = "openai" THEN StructuredPool ELSE LoosePool, n)

\* "except Exception as e: ... return []": whatever the backend call had
\* produced before it failed, the gateway returns the empty list.
OnBackendFailure_Partial(partial) == partial

OnBackendFailure(partial) == <<>>

\* classify_news_batch: "if USE_OPENAI and openai_client"
BackendFor_ClientOnly(use_openai, client) ==
    IF client THEN "openai" ELSE "llama"

BackendFor(use_openai, client) ==
    IF use_openai /\ client THEN "openai" ELSE "llama"

\* ------------------------------------------------------- importance filter
\* classification.get("is_english", True), then "if not is_english: continue"
IsEnglish_Ignored(c) == TRUE

IsEnglish(c) == c.is_english # "false"

\* float(classification.get("importance_score", 0.0)) >= IMPORTANCE_THRESHOLD
ScoreOf(c) == IF c.importance_score.kind = "absent" THEN 0 ELSE c.importance_score.val

Important(c) == ScoreOf(c) >= IMPORTANCE_THRESHOLD

\* classification.get("article_id", j + 1); j is 1-based here, so the default
\* and the expected id are both j.
IdMatches_Ignored(c, j) == TRUE

IdMatches(c, j) ==
    (IF c.article_id.kind = "absent" THEN j ELSE c.article_id.val) = j

\* The result loop of process_articles_batch from position j, run until it
\* suspends.  hub_empty: active_connections is empty, so broadcast returns at
\* once and the loop goes on.  called: the positions broadcast was called for.
\* kind: "send" (suspended inside broadcast for position j), "end" (loop over),
\* "raise" (float() raised).
RECURSIVE ResultsLoop(_, _, _, _, _)
ResultsLoop(na, cls, j, hub_empty, called) ==
    IF j > Len(cls) \/ j > Len(na)
    THEN [kind |-> "end", j |-> j, called |-> called]
    ELSE LET c == cls[j]
         IN  IF ~IdMatches(c, j)
             THEN ResultsLoop(na, cls, j + 1, hub_empty, called)
             ELSE IF c.importance_score.kind = "bad"
             THEN [kind |-> "raise", j |-> j, called |-> called]
             ELSE IF ~IsEnglish(c)
             THEN ResultsLoop(na, cls, j + 1, hub_empty, called)
             ELSE IF Important(c)
             THEN IF hub_empty
                  THEN ResultsLoop(na, cls, j + 1, hub_empty, called \cup {j})
                  ELSE [kind |-> "send", j |-> j, called |-> called \cup {j}]
             ELSE ResultsLoop(na, cls, j + 1, hub_empty, called)

\* What broadcast was called with, for the record of the step.
CallsOf(na, cls, called) ==
    { [url |-> UrlOf(na[k]), score |-> ScoreOf(cls[k]),
       is_english |-> cls[k].is_english] : k \in called }

\* ------------------------------------------------------------ set iterator
\* "for connection in self.active_connections" is CPython's set iterator: it
\* remembers the set's size (si_used) and a table position (si_pos).  Each
\* step first compares the size and raises RuntimeError when it differs, then
\* scans on from si_pos.  A connection's number stands for its table slot.
IterNext(used, pos, act) ==
    IF used # Cardinality(act) THEN [kind |-> "raise", c |-> 0]
    ELSE LET rest == {c \in act : c > pos}
         IN  IF rest = {} THEN [kind |-> "stop", c |-> 0]
             ELSE [kind |-> "item", c |-> Min(rest)]

\* manager.disconnect: "self.active_connections.discard(websocket)".  error:
\* the call raised (set.remove would, on an absent member; discard never does).
disconnect_Remove(act, websocket) ==
    [act |-> act \ {websocket}, error |-> websocket \notin act]

disconnect(act, websocket) == [act |-> act \ {websocket}, error |-> FALSE]

\* "for connection in disconnected: self.active_connections.discard(connection)"
RemoveDisconnected_Skipped(act, disconnected) == act

RemoveDisconnected(act, disconnected) == act \ disconnected

\* -------------------------------------------------------------------- state
VARIABLES
    seen_urls,            \* module global seen_urls
    seen_content_hashes,  \* module global seen_content_hashes
    active_connections,   \* manager.active_connections
    USE_OPENAI,           \* module global USE_OPENAI
    openai_client,        \* TRUE iff OPENAI_API_KEY was set (client is not None)
    api_key,              \* per poller: its API key is set
    limit,                \* the scenario of this run (never changes)
    pc,                   \* per task: the await it is suspended at
    frame,                \* per task: the locals that live across its awaits
    ws,                   \* per websocket: where websocket_endpoint stands
    sendq,                \* per websocket: tasks inside send_text, oldest first
    last_received,        \* per websocket: number of the last message it got
    calls,                \* broadcasts that started iterating, so far
    fetches, tests, configs,   \* counters that bound the run
    admitted,             \* every admission so far: [url, key] lines, in order
    hist,                 \* sent: URLs broadcast was called for (detail runs);
                          \* configured: a configure request has set the flag
    cancel,               \* per poller: "none", "pending", "delivered"
    lifespan,             \* where the lifespan context manager stands
    http_closed,          \* http_client.aclose() has run
    ev                    \* what the last step did (read by the properties only)

vars == << seen_urls, seen_content_hashes, active_connections, USE_OPENAI,
           openai_client, api_key, limit, pc, frame, ws, sendq, last_received, calls,
           fetches, tests, configs, admitted, hist, cancel, lifespan, http_closed, ev >>

NoFrame ==
    [na |-> <<>>, cls |-> <<>>, j |-> 0, backend |-> "",
     msg |-> 0, si_used |-> 0, si_pos |-> 0, cur |-> 0,
     disconnected |-> {}, snap |-> {}, attempted |-> {}, mutated |-> FALSE]

\* The record of a step.  Broadcast: ended .. mutated, bcalls.  Dedup loop:
\* log, passed (the list given to classify_news_batch), invoked.  Result loop:
\* classified, and in detail runs backend_failed, reply, nadm, called.
\* error: the task whose "except Exception" caught something in this step.
\* request/result: a configure request and its outcome.  gone/absent: the
\* websocket that manager.disconnect was called for, and whether it had
\* already left the set.
Quiet ==
    [ended |-> FALSE, task |-> "", snap |-> {}, attempted |-> {}, failed |-> {},
     raised |-> FALSE, mutated |-> FALSE, bcalls |-> {}, log |-> <<>>,
     passed |-> <<>>, invoked |-> FALSE, classified |-> FALSE,
     backend_failed |-> FALSE, reply |-> <<>>, nadm |-> 0, called |-> {},
     error |-> "", request |-> "", result |-> "", gone |-> 0, absent |-> FALSE]

InitIn(scenarios) ==
    /\ seen_urls = {}
    /\ seen_content_hashes = {}
    /\ active_connections = {}
    /\ USE_OPENAI = TRUE
    /\ limit \in scenarios
    /\ openai_client = limit.client
    /\ api_key = limit.keys
    /\ pc = [t \in Tasks |-> IF t = TestTask THEN "idle" ELSE "start"]
    /\ frame = [t \in Tasks |-> NoFrame]
    /\ ws = [c \in Conns |-> "new"]
    /\ sendq = [c \in Conns |-> <<>>]
    /\ last_received = [c \in Conns |-> 0]
    /\ calls = 0
    /\ fetches = 0
    /\ tests = 0
    /\ configs = 0
    /\ admitted = <<>>
    /\ hist = [sent |-> {}, configured |-> FALSE]
    /\ cancel = [p \in Pollers |-> "none"]
    /\ lifespan = "running"
    /\ http_closed = FALSE
    /\ ev = Quiet

Init == InitIn(Scenarios)

\* ------------------------------------------------- broadcast, step by step
\* broadcast(message) with a non-empty set: the iterator is created and the
\* first send_text is awaited.
StartBroadcast(fr, act, msg) ==
    LET n == IterNext(Cardinality(act), 0, act)
    IN  [fr EXCEPT !.msg = msg, !.si_used = Cardinality(act), !.si_pos = n.c,
                   !.cur = n.c, !.disconnected = {}, !.snap = act,
                   !.attempted = {n.c}, !.mutated = FALSE]

\* Where a poller goes when process_articles_batch has returned:
\* "await asyncio.sleep(POLL_INTERVAL_SECONDS)".
AfterBatch == "sleep"

\* Where a poller goes when its try block raised an Exception:
\* "except Exception as e: ... await asyncio.sleep(RETRY_INTERVAL_SECONDS)".
OnError_Returns == "returned"

OnError == "retry"

\* The seconds a poller suspended at pc sleeps (0: it is not asleep).
Interval(at) ==
    CASE at = "sleep" -> POLL_INTERVAL_SECONDS
      [] at = "retry" -> RETRY_INTERVAL_SECONDS
      [] OTHER -> 0

\* The result loop from position j until the task suspends or the batch ends.
RunResults(na, cls, j, act, msg) ==
    LET r == ResultsLoop(na, cls, j, act = {}, {})
        base == [pc |-> AfterBatch, frame |-> NoFrame, act |-> act,
                 started |-> FALSE, bcalls |-> CallsOf(na, cls, r.called),
                 called |-> r.called, error |-> FALSE]
    IN  CASE r.kind = "send" ->
               [base EXCEPT !.pc = "send", !.started = TRUE,
                   !.frame = StartBroadcast(
                       [NoFrame EXCEPT !.na = na, !.cls = cls, !.j = r.j], act, msg)]
          [] r.kind = "raise" -> [base EXCEPT !.pc = OnError, !.error = TRUE]
          [] OTHER -> base

\* The record of a broadcast call that has just ended.
EndOf(t, fr, raised) ==
    [ended |-> TRUE, task |-> t, snap |-> fr.snap, attempted |-> fr.attempted,
     failed |-> fr.disconnected, raised |-> raised, mutated |-> fr.mutated]

\* Task t comes back from send_text (fr.disconnected already holds the
\* connection if the send raised) and runs on to its next await.
AfterSend(t, fr, act, msg) ==
    LET n == IterNext(fr.si_used, fr.si_pos, act)
    IN  CASE n.kind = "item" ->
               [pc |-> "send", act |-> act, started |-> FALSE, bcalls |-> {},
                called |-> {}, error |-> FALSE,
                frame |-> [fr EXCEPT !.si_pos = n.c, !.cur = n.c,
                                     !.attempted = @ \cup {n.c}],
                end |-> Quiet]
          [] n.kind = "raise" ->
               \* RuntimeError leaves broadcast; a poller catches it in
               \* "except Exception" and sleeps RETRY_INTERVAL_SECONDS
               [pc |-> IF t = TestTask THEN "idle" ELSE OnError,
                act |-> act, started |-> FALSE, bcalls |-> {},
                called |-> {}, error |-> TRUE,
                frame |-> NoFrame, end |-> EndOf(t, fr, TRUE)]
          [] OTHER ->
               LET act2 == RemoveDisconnected(act, fr.disconnected)
               IN  IF t = TestTask
                   THEN [pc |-> "idle", act |-> act2, started |-> FALSE,
                         bcalls |-> {}, called |-> {}, error |-> FALSE,
                         frame |-> NoFrame, end |-> EndOf(t, fr, FALSE)]
                   ELSE RunResults(fr.na, fr.cls, fr.j + 1, act2, msg)
                            @@ [end |-> EndOf(t, fr, FALSE)]

\* The step record of an outcome o of task t.
EvOf(t, o, end) ==
    [Quiet EXCEPT !.ended = end.ended, !.task = end.task, !.snap = end.snap,
                  !.attempted = end.attempted, !.failed = end.failed,
                  !.raised = end.raised, !.mutated = end.mutated,
                  !.bcalls = o.bcalls, !.error = IF o.error THEN t ELSE ""]

\* Install outcome o of task t; q is sendq without t's finished send.
Install(t, o, q, end) ==
    /\ pc' = [pc EXCEPT ![t] = o.pc]
    /\ active_connections' = o.act
    /\ frame' = [u \in Tasks |->
                   IF u = t THEN o.frame
                   ELSE IF pc[u] = "send" /\ o.act # active_connections
                        THEN [frame[u] EXCEPT !.mutated = TRUE]
                        ELSE frame[u]]
    /\ sendq' = IF o.pc = "send" THEN [q EXCEPT ![o.frame.cur] = Append(@, t)]
                ELSE q
    /\ calls' = IF o.started THEN calls + 1 ELSE calls
    /\ hist' = IF limit.detail
               THEN [hist EXCEPT !.sent = @ \cup {b.url : b \in o.bcalls}]
               ELSE hist

\* ----------------------------------------------------------------- pollers
\* A poller runs whenever the event loop picks it: nothing another poller
\* does (asyncio.sleep suspends only the caller) keeps it from its next step.
Running_Blocked(p) ==
    /\ cancel[p] # "pending"
    /\ \A q \in Pollers \ {p} : pc[q] # "retry"

Running(p) == cancel[p] # "pending"

\* finnhub_news_poller / polygon_news_poller up to the first http_client.get
PollerStart(p) ==
    /\ pc[p] = "start" /\ Running(p)
    /\ IF api_key[p]
       THEN /\ fetches < limit.fetches
            /\ fetches' = IF limit.count THEN fetches + 1 ELSE fetches
            /\ pc' = [pc EXCEPT ![p] = "fetch"]
       ELSE /\ pc' = [pc EXCEPT ![p] = "returned"]
            /\ UNCHANGED fetches
    /\ ev' = Quiet
    /\ UNCHANGED << seen_urls, seen_content_hashes, active_connections,
                    USE_OPENAI, openai_client, api_key, limit, frame, ws, sendq,
                    last_received, calls, tests, configs, admitted, hist, cancel,
                    lifespan, http_closed >>

\* The get raised, raise_for_status raised, or Polygon's status was not "OK":
\* the poller sleeps RETRY_INTERVAL_SECONDS.
FetchFail(p) ==
    /\ pc[p] = "fetch" /\ Running(p)
    /\ pc' = [pc EXCEPT ![p] = OnError]
    /\ ev' = [Quiet EXCEPT !.error = p]
    /\ UNCHANGED << seen_urls, seen_content_hashes, active_connections,
                    USE_OPENAI, openai_client, api_key, limit, frame, ws, sendq,
                    last_received, calls, fetches, tests, configs, admitted, hist,
                    cancel, lifespan, http_closed >>

\* The fetch returned articles; process_articles_batch runs its dedup loop and
\* reaches "await classify_news_batch(new_articles)" or returns.
FetchOk(p) ==
    /\ pc[p] = "fetch" /\ Running(p) /\ ~http_closed
    /\ p \notin limit.outage
    /\ \E articles \in Batches(limit.batch) :
       \E d \in {Dedup(articles, seen_urls, seen_content_hashes)} :
           /\ seen_urls' = d.su
           /\ seen_content_hashes' = d.sh
           /\ admitted' = admitted \o
                  [i \in 1..Len(d.na) |->
                      [url |-> UrlOf(d.na[i]), key |-> NormalKey(d.na[i])]]
           /\ IF d.na = <<>>
              THEN /\ pc' = [pc EXCEPT ![p] = AfterBatch]
                   /\ UNCHANGED frame
              ELSE /\ pc' = [pc EXCEPT ![p] = "classify"]
                   /\ frame' = [frame EXCEPT ![p] =
                          [NoFrame EXCEPT !.na = d.na,
                              !.backend = BackendFor(USE_OPENAI, openai_client)]]
           /\ ev' = [Quiet EXCEPT !.log = d.log, !.task = p, !.passed = d.na,
                                  !.invoked = (d.na # <<>>)]
    /\ UNCHANGED << active_connections, USE_OPENAI, openai_client, api_key, limit, ws,
                    sendq, last_received, calls, fetches, tests, configs, hist, cancel,
                    lifespan, http_closed >>

\* classify_news_batch returned; the result loop runs to its first broadcast
\* that has to wait, or to its end.  failed: the backend call raised after
\* producing some entries; the reply is then [], which is also one of the
\* Replies, so only the detailed runs tell the two apart.
ClassifyReturn(p) ==
    /\ pc[p] = "classify" /\ Running(p)
    /\ \E produced \in Replies(frame[p].backend, limit.results) :
       \E failed \in (IF limit.detail THEN BOOLEAN ELSE {FALSE}) :
       \E reply \in {IF failed THEN OnBackendFailure(produced) ELSE produced} :
       \E o \in {RunResults(frame[p].na, reply, 1, active_connections, calls + 1)} :
           /\ Install(p, o, sendq, Quiet)
           /\ ev' = IF limit.detail
                    THEN [EvOf(p, o, Quiet) EXCEPT
                             !.task = p, !.classified = TRUE,
                             !.backend_failed = failed, !.reply = reply,
                             !.nadm = Len(frame[p].na), !.called = o.called]
                    ELSE [EvOf(p, o, Quiet) EXCEPT !.task = p, !.classified = TRUE]
    /\ UNCHANGED << seen_urls, seen_content_hashes, USE_OPENAI, openai_client,
                    api_key, limit, ws, last_received, fetches, tests, configs,
                    admitted, cancel, lifespan, http_closed >>

\* The poller is in one of its two sleeps: process_articles_batch has
\* returned or an error has abandoned it ("await process_articles_batch(news)"
\* comes before either sleep).
Asleep_Detached(p) == pc[p] \in {"sleep", "retry", "classify"}

Asleep(p) == pc[p] \in {"sleep", "retry"}

\* asyncio.sleep is over (either interval): the loop starts the next fetch.
SleepDone(p) ==
    /\ Asleep(p) /\ Running(p)
    /\ fetches < limit.fetches
    /\ fetches' = IF limit.count THEN fetches + 1 ELSE fetches
    /\ pc' = [pc EXCEPT ![p] = "fetch"]
    /\ ev' = Quiet
    /\ UNCHANGED << seen_urls, seen_content_hashes, active_connections,
                    USE_OPENAI, openai_client, api_key, limit, frame, ws, sendq,
                    last_received, calls, tests, configs, admitted, hist, cancel,
                    lifespan, http_closed >>

\* ------------------------------------------------------------------- sends
Without(q, t) == SelectSeq(q, LAMBDA u : u # t)

\* send_text of task t returned: the subscriber has the message.  Sends on
\* one websocket finish in the order they were started.
SendOk(t) ==
    /\ pc[t] = "send" /\ (t \in Pollers => Running(t))
    /\ LET fr == frame[t]
           c  == fr.cur
       IN  /\ ws[c] = "open"
           /\ Head(sendq[c]) = t
           /\ last_received' = [last_received EXCEPT ![c] = fr.msg]
           /\ \E o \in {AfterSend(t, fr, active_connections, calls + 1)} :
                  /\ Install(t, o, [sendq EXCEPT ![c] = Tail(@)], o.end)
                  /\ ev' = EvOf(t, o, o.end)
    /\ UNCHANGED << seen_urls, seen_content_hashes, USE_OPENAI, openai_client,
                    api_key, limit, ws, fetches, tests, configs, admitted, cancel,
                    lifespan, http_closed >>

\* send_text of task t raised: "except: disconnected.add(connection)".
SendFail(t) ==
    /\ pc[t] = "send" /\ (t \in Pollers => Running(t))
    /\ LET c  == frame[t].cur
           fr == [frame[t] EXCEPT !.disconnected = @ \cup {c}]
       IN  \E o \in {AfterSend(t, fr, active_connections, calls + 1)} :
               /\ Install(t, o, [sendq EXCEPT ![c] = Without(@, t)], o.end)
               /\ ev' = EvOf(t, o, o.end)
    /\ UNCHANGED << seen_urls, seen_content_hashes, USE_OPENAI, openai_client,
                    api_key, limit, ws, last_received, fetches, tests, configs,
                    admitted, cancel, lifespan, http_closed >>

\* ------------------------------------------------------------ HTTP surface
\* POST /api/test-news: send_test_news calls manager.broadcast(test_payload).
TestNews ==
    /\ pc[TestTask] = "idle" /\ lifespan = "running"
    /\ tests < limit.tests
    /\ tests' = tests + 1
    /\ IF active_connections = {}
       THEN UNCHANGED << pc, frame, sendq, calls >>
       ELSE LET fr == StartBroadcast(NoFrame, active_connections, calls + 1)
            IN  /\ pc' = [pc EXCEPT ![TestTask] = "send"]
                /\ frame' = [frame EXCEPT ![TestTask] = fr]
                /\ sendq' = [sendq EXCEPT ![fr.cur] = Append(@, TestTask)]
                /\ calls' = calls + 1
    /\ ev' = Quiet
    /\ UNCHANGED << seen_urls, seen_content_hashes, active_connections,
                    USE_OPENAI, openai_client, api_key, limit, ws, last_received,
                    fetches, configs, admitted, hist, cancel, lifespan, http_closed >>

\* The backend a configure request asks for.
Provider(use_openai) == IF use_openai THEN "openai" ELSE "llama"

\* POST /api/configure
Configure(use_openai) ==
    /\ lifespan = "running"
    /\ configs < limit.configs
    /\ configs' = configs + 1
    /\ IF use_openai /\ ~openai_client
       THEN /\ UNCHANGED << USE_OPENAI, hist >>
            /\ ev' = [Quiet EXCEPT !.request = Provider(use_openai),
                                   !.result = "error"]
       ELSE /\ USE_OPENAI' = use_openai
            /\ hist' = [hist EXCEPT !.configured = TRUE]
            /\ ev' = [Quiet EXCEPT !.request = Provider(use_openai),
                                   !.result = "success"]
    /\ UNCHANGED << seen_urls, seen_content_hashes, active_connections,
                    openai_client, api_key, limit, pc, frame, ws, sendq, last_received,
                    calls, fetches, tests, admitted, cancel, lifespan,
                    http_closed >>

\* -------------------------------------------------------------- websockets
\* A change of active_connections made by someone else is noted in the frame
\* of every broadcast that is suspended in a send.
Touched(act) ==
    [u \in Tasks |->
        IF pc[u] = "send" /\ act # active_connections
        THEN [frame[u] EXCEPT !.mutated = TRUE]
        ELSE frame[u]]

\* websocket_endpoint -> manager.connect: "await websocket.accept()"
Connect(c) ==
    /\ ws[c] = "new" /\ lifespan = "running"
    /\ c <= limit.conns
    /\ ws' = [ws EXCEPT ![c] = "accepting"]
    /\ ev' = Quiet
    /\ UNCHANGED << seen_urls, seen_content_hashes, active_connections,
                    USE_OPENAI, openai_client, api_key, limit, pc, frame, sendq,
                    last_received, calls, fetches, tests, configs, admitted, hist,
                    cancel, lifespan, http_closed >>

\* accept returned: "self.active_connections.add(websocket)", then the
\* endpoint waits in receive_text.
Accepted(c) ==
    /\ ws[c] = "accepting"
    /\ ws' = [ws EXCEPT ![c] = "open"]
    /\ active_connections' = active_connections \cup {c}
    /\ frame' = Touched(active_connections \cup {c})
    /\ ev' = Quiet
    /\ UNCHANGED << seen_urls, seen_content_hashes, USE_OPENAI, openai_client,
                    api_key, limit, pc, sendq, last_received, calls, fetches, tests,
                    configs, admitted, hist, cancel, lifespan, http_closed >>

\* receive_text raised WebSocketDisconnect: manager.disconnect(websocket)
Disconnect(c) ==
    /\ ws[c] = "open"
    /\ \E r \in {disconnect(active_connections, c)} :
           /\ ws' = [ws EXCEPT ![c] = IF r.error THEN "crashed" ELSE "closed"]
           /\ active_connections' = r.act
           /\ frame' = Touched(r.act)
    /\ ev' = [Quiet EXCEPT !.gone = c, !.absent = (c \notin active_connections)]
    /\ UNCHANGED << seen_urls, seen_content_hashes, USE_OPENAI, openai_client,
                    api_key, limit, pc, sendq, last_received, calls, fetches, tests,
                    configs, admitted, hist, cancel, lifespan, http_closed >>

\* ---------------------------------------------------------------- lifespan
Finished(p) == pc[p] \in {"returned", "cancelled"}

\* After the yield: finnhub_task.cancel(); polygon_task.cancel(); then
\* "await http_client.aclose()".  cancel() of a finished task does nothing.
Shutdown ==
    /\ lifespan = "running" /\ limit.stop
    /\ lifespan' = "aclose"
    /\ cancel' = [p \in Pollers |-> IF Finished(p) THEN "none" ELSE "pending"]
    /\ ev' = Quiet
    /\ UNCHANGED << seen_urls, seen_content_hashes, active_connections,
                    USE_OPENAI, openai_client, api_key, limit, pc, frame, ws, sendq,
                    last_received, calls, fetches, tests, configs, admitted, hist,
                    http_closed >>

\* aclose returned; the lifespan goes on to "await finnhub_task".
HttpClosed ==
    /\ lifespan = "aclose"
    /\ lifespan' = "await_finnhub"
    /\ http_closed' = TRUE
    /\ ev' = Quiet
    /\ UNCHANGED << seen_urls, seen_content_hashes, active_connections,
                    USE_OPENAI, openai_client, api_key, limit, pc, frame, ws, sendq,
                    last_received, calls, fetches, tests, configs, admitted, hist,
                    cancel >>

\* The cancelled task runs again: CancelledError is raised at its await.
\* Everywhere but inside broadcast it leaves the poller ("except Exception"
\* does not catch it).  Inside broadcast the bare "except:" around send_text
\* catches it: the connection is put in disconnected and the loop goes on.
DeliverCancel(p) ==
    /\ cancel[p] = "pending"
    /\ cancel' = [cancel EXCEPT ![p] = "delivered"]
    /\ IF pc[p] = "send"
       THEN LET c  == frame[p].cur
                fr == [frame[p] EXCEPT !.disconnected = @ \cup {c}]
            IN  \E o \in {AfterSend(p, fr, active_connections, calls + 1)} :
                    /\ Install(p, o, [sendq EXCEPT ![c] = Without(@, p)], o.end)
                    /\ ev' = EvOf(p, o, o.end)
       ELSE /\ pc' = [pc EXCEPT ![p] = "cancelled"]
            /\ frame' = [frame EXCEPT ![p] = NoFrame]
            /\ ev' = Quiet
            /\ UNCHANGED << active_connections, sendq, calls, hist >>
    /\ UNCHANGED << seen_urls, seen_content_hashes, USE_OPENAI, openai_client,
                    api_key, limit, ws, last_received, fetches, tests, configs,
                    admitted, lifespan, http_closed >>

\* "await finnhub_task": a cancelled task raises CancelledError here, which
\* the lifespan's except clause swallows, skipping "await polygon_task".
AwaitFinnhub ==
    /\ lifespan = "await_finnhub" /\ Finished("finnhub")
    /\ lifespan' = IF pc["finnhub"] = "cancelled" THEN "complete"
                   ELSE "await_polygon"
    /\ ev' = Quiet
    /\ UNCHANGED << seen_urls, seen_content_hashes, active_connections,
                    USE_OPENAI, openai_client, api_key, limit, pc, frame, ws, sendq,
                    last_received, calls, fetches, tests, configs, admitted, hist,
                    cancel, http_closed >>

\* "await polygon_task"
AwaitPolygon ==
    /\ lifespan = "await_polygon" /\ Finished("polygon")
    /\ lifespan' = "complete"
    /\ ev' = Quiet
    /\ UNCHANGED << seen_urls, seen_content_hashes, active_connections,
                    USE_OPENAI, openai_client, api_key, limit, pc, frame, ws, sendq,
                    last_received, calls, fetches, tests, configs, admitted, hist,
                    cancel, http_closed >>

\* ------------------------------------------------------------ specification
PollerNext ==
    \/ \E p \in Pollers : PollerStart(p)
    \/ \E p \in Pollers : FetchFail(p)
    \/ \E p \in Pollers : FetchOk(p)
    \/ \E p \in Pollers : ClassifyReturn(p)
    \/ \E p \in Pollers : SleepDone(p)

HubNext ==
    \/ \E t \in Tasks : SendOk(t)
    \/ \E t \in Tasks : SendFail(t)
    \/ TestNews
    \/ \E b \in BOOLEAN : Configure(b)
    \/ \E c \in Conns : Connect(c)
    \/ \E c \in Conns : Accepted(c)
    \/ \E c \in Conns : Disconnect(c)

StopNext ==
    \/ Shutdown
    \/ HttpClosed
    \/ \E p \in Pollers : DeliverCancel(p)
    \/ AwaitFinnhub
    \/ AwaitPolygon

Next == PollerNext \/ HubNext \/ StopNext

\* The whole service, over all scenarios.
Spec == Init /\ [][Next]_vars

\* The service with no subscriber, no test request and no shutdown: every
\* action left out of PollerNext is disabled in these scenarios.
PipelineSpec == InitIn(PipelineScenarios) /\ [][PollerNext]_vars

\* The hub alone: no poller has its API key, so both return at once, and the
\* only broadcasts are those of /api/test-news.
SoloNext ==
    \/ \E p \in Pollers : PollerStart(p)
    \/ \E t \in Tasks : SendOk(t)
    \/ \E t \in Tasks : SendFail(t)
    \/ TestNews
    \/ \E c \in Conns : Connect(c)
    \/ \E c \in Conns : Accepted(c)
    \/ \E c \in Conns : Disconnect(c)

SoloSpec == InitIn(SoloScenarios) /\ [][SoloNext]_vars

\* One poller alone, with the detailed step record.
RoundsSpec == InitIn(RoundScenarios) /\ [][PollerNext]_vars

\* One poller and /api/configure requests.
ConfigNext == PollerNext \/ \E b \in BOOLEAN : Configure(b)

ConfigSpec == InitIn(ConfigScenarios) /\ [][ConfigNext]_vars

\* Finnhub is down for good.  The event loop runs every task that is ready,
\* every sleep ends and every request returns or times out (timeout=10.0 on
\* the fetch, 60.0 on the Llama call): each poller's next step is taken.
PollerStep(p) ==
    \/ PollerStart(p) \/ FetchFail(p) \/ FetchOk(p)
    \/ ClassifyReturn(p) \/ SleepDone(p)

OutageSpec ==
    /\ InitIn(OutageScenarios)
    /\ [][PollerNext]_vars
    /\ \A p \in Pollers : WF_vars(PollerStep(p))

\* ------------------------------------------------------------------ claims
LogLines == {ev.log[k] : k \in 1..Len(ev.log)}

\* C1: over all batches of all pollers, at most one article is ever admitted
\* for any one URL.
C1_UrlAdmittedOnce ==
    \A i, j \in 1..Len(admitted) :
        admitted[i].url = admitted[j].url => i = j

\* C1 witness: an article whose URL was admitted before is offered again (same
\* batch or a later one) and turned away.
C1_Witness ==
    \E l \in LogLines : l.valid /\ l.urlSeen /\ ~l.admitted

\* C2: of two admitted articles with different URLs, no two have the same
\* lower-cased, trimmed headline and summary.
C2_ContentAdmittedOnce ==
    \A i, j \in 1..Len(admitted) :
        (i # j /\ admitted[i].url # admitted[j].url)
            => admitted[i].key # admitted[j].key

\* C2 witness: a valid article with a new URL is turned away because its
\* fingerprint is known.
C2_Witness ==
    \E l \in LogLines : l.valid /\ ~l.urlSeen /\ l.fpSeen /\ ~l.admitted

\* C3: a valid article is admitted exactly when neither its URL nor its
\* fingerprint was in the seen sets when the loop reached it, and after the
\* dedup loop every admitted article has both in the seen sets.
C3_AdmitIff ==
    \A l \in LogLines :
        l.valid =>
            /\ l.admitted <=> (~l.urlSeen /\ ~l.fpSeen)
            /\ l.admitted => (l.url \in seen_urls /\ l.fp \in seen_content_hashes)

\* C3 witness: one dedup pass that admits one valid article and rejects another.
C3_Witness ==
    \E l, m \in LogLines : l.valid /\ l.admitted /\ m.valid /\ ~m.admitted

\* C4 as claimed: broadcast is called for an article only if its result has
\* score >= 7.0 and an English flag that is true.
C4_Claim ==
    \A b \in ev.bcalls :
        b.score >= IMPORTANCE_THRESHOLD /\ b.is_english = "true"

\* C4 amended: broadcast is called for an article only if its result has
\* score >= 7.0 and an English flag that is not false (true, or left out and
\* so read as true); a result flagged non-English is never broadcast.
C4_BroadcastOnlyImportant ==
    \A b \in ev.bcalls :
        b.score >= IMPORTANCE_THRESHOLD /\ b.is_english # "false"

\* C4 witness: the result loop called broadcast for a result without the flag.
C4_Witness ==
    \E b \in ev.bcalls : b.is_english = "absent"

\* C5 as claimed: a broadcast attempts a send to every subscriber that was in
\* active_connections when it was called.
C5_Claim == ev.ended => ev.snap \subseteq ev.attempted

\* C6 as claimed: a broadcast during which a subscriber was registered or
\* removed still returns normally.
C6_Claim == (ev.ended /\ ev.mutated) => ~ev.raised

\* C7: a broadcast during which nobody else changed the subscriber set
\* returns without error, has attempted a send to every subscriber of the
\* set, and leaves the set without exactly those whose send failed.
C7_FailuresIsolated ==
    (ev.ended /\ ~ev.mutated) =>
        /\ ~ev.raised
        /\ ev.attempted = ev.snap
        /\ active_connections = ev.snap \ ev.failed

\* C7 witness: such a broadcast where some sends failed and some did not.
C7_Witness ==
    /\ ev.ended /\ ~ev.mutated
    /\ ev.failed # {} /\ ev.snap \ ev.failed # {}

\* C8 as claimed: right after a broadcast ends, no subscriber whose send
\* failed in it is in active_connections.
C8_Claim == ev.ended => ev.failed \cap active_connections = {}

\* C9 as claimed: a subscriber receives messages in the order broadcast was
\* called (messages are numbered in call order).
C9_Claim ==
    [][\A c \in Conns :
          last_received'[c] # last_received[c]
              => last_received'[c] > last_received[c]]_vars

\* C10 as claimed: a poller the cancellation has reached has terminated.
C10_Claim ==
    \A p \in Pollers : cancel[p] = "delivered" => pc[p] = "cancelled"

\* C11: a poller that has its API key never returns; a step in which its
\* loop caught an error (a failed fetch, an error raised while the batch was
\* processed) leaves it in the retry sleep, which is RETRY_INTERVAL_SECONDS
\* and shorter than the poll interval; and the retry sleep ends only in the
\* next fetch or in a cancellation.
C11_FailureRetries ==
    [][\A p \in Pollers :
          api_key[p] =>
            /\ pc'[p] # "returned"
            /\ (ev'.error = p) =>
                  /\ pc'[p] = "retry"
                  /\ Interval(pc'[p]) = RETRY_INTERVAL_SECONDS
                  /\ RETRY_INTERVAL_SECONDS < POLL_INTERVAL_SECONDS
            /\ (pc[p] = "retry" /\ pc'[p] # "retry") =>
                  pc'[p] \in {"fetch", "cancelled"}]_vars

\* C11 witness: float() raised in the result loop of a poller's batch and the
\* poller is in its retry sleep.
C11_Witness ==
    \E p \in Pollers :
        api_key[p] /\ ev.error = p /\ ev.classified /\ pc[p] = "retry"

\* C12: while Finnhub's fetch fails every time, the Polygon poller fetches
\* again and again (so it is never stuck in a fetch, a classification or a
\* sleep) and never returns, and when its result loop ends without an error
\* broadcast has been called for every result that is aligned, English and at
\* or above the threshold.
C12_OutageIndependent ==
    /\ []<>(pc["polygon"] = "fetch")
    /\ [](pc["polygon"] # "returned")
    /\ []((ev.classified /\ ev.task = "polygon" /\ ev.error = "") =>
            \A j \in 1..Len(ev.reply) :
                ( /\ j <= ev.nadm
                  /\ ev.reply[j].article_id \in {NoNum, Num(j)}
                  /\ ev.reply[j].is_english # "false"
                  /\ ev.reply[j].importance_score.kind = "number"
                  /\ ev.reply[j].importance_score.val >= IMPORTANCE_THRESHOLD )
                => j \in ev.called)

\* C12 witness: Polygon's batch has just been broadcast while Finnhub sits in
\* the retry sleep after a failed fetch.
C12_Witness ==
    /\ pc["finnhub"] = "retry"
    /\ ev.classified /\ ev.task = "polygon" /\ ev.bcalls # {}

\* C13: a poller starts a fetch only from its start or from one of its two
\* sleeps, and holds no batch then: the batch of its previous fetch has
\* returned or been abandoned.
C13_NoOverlap ==
    [][\A p \in Pollers :
          (pc'[p] = "fetch" /\ pc[p] # "fetch") =>
              /\ pc[p] \in {"start", "sleep", "retry"}
              /\ frame[p] = NoFrame]_vars

\* C13 witness: a poller is in its second fetch (the other one has not
\* started), after a first batch that admitted something.
C13_Witness ==
    \E p \in Pollers :
        /\ pc[p] = "fetch" /\ fetches >= 2 /\ seen_urls # {}
        /\ \A q \in Pollers \ {p} : pc[q] = "start"

\* C14: when the backend failed or returned the empty list for a non-empty
\* admitted batch, nothing is broadcast, no error reaches the poller, and the
\* poller sleeps the poll interval.
C14_EmptyReplyQuiet ==
    (ev.classified /\ ev.nadm > 0 /\ (ev.backend_failed \/ ev.reply = <<>>)) =>
        /\ ev.bcalls = {}
        /\ ev.error = ""
        /\ pc[ev.task] = "sleep"
        /\ Interval(pc[ev.task]) = POLL_INTERVAL_SECONDS

\* C14 witness: the backend failed on a non-empty admitted batch.
C14_Witness ==
    ev.classified /\ ev.nadm > 0 /\ ev.backend_failed

\* Position j of the last reply declares an id other than j.
C15_Mismatch(j) ==
    /\ ev.reply[j].article_id.kind = "number"
    /\ ev.reply[j].article_id.val # j

\* The aligned positions of the last reply, and among them the first on which
\* float() raises (one past the end when there is none).
C15_Aligned == 1..(IF Len(ev.reply) <= ev.nadm THEN Len(ev.reply) ELSE ev.nadm)

C15_Stop ==
    LET bad == {j \in C15_Aligned :
                   ~C15_Mismatch(j) /\ ev.reply[j].importance_score.kind = "bad"}
    IN  IF bad = {} THEN Len(ev.reply) + ev.nadm + 1 ELSE Min(bad)

C16_ClassifiedOnce ==
    [][/\ \A k \in 1..Len(ev'.passed) : \A i \in 1..Len(admitted) :
              /\ UrlOf(ev'.passed[k]) # admitted[i].url
              /\ NormalKey(ev'.passed[k]) # admitted[i].key
       /\ \A b \in ev'.bcalls :
              /\ b.url \notin hist.sent
              /\ \E k \in 1..Len(frame[ev'.task].na) :
                     UrlOf(frame[ev'.task].na[k]) = b.url]_vars

\* C16 witness: an article admitted in an earlier round, for which broadcast
\* was never called, comes back and is turned away.
C16_Witness ==
    \E l \in LogLines :
        /\ l.valid /\ l.urlSeen /\ l.fpSeen /\ ~l.admitted
        /\ l.url \notin hist.sent
        /\ \A p \in Pollers : \A k \in 1..Len(frame[p].na) :
               UrlOf(frame[p].na[k]) # l.url

\* A raw article with no headline under either key, or no URL under either key.
C17_Lacking(a) ==
    \/ a.headline = <<>> /\ a.title = <<>>
    \/ a.url = "" /\ a.article_url = ""

\* C17: an article lacking a headline or a URL changes neither seen set, is
\* not admitted, and is not in the list given to the classification gateway.
C17_InvalidDropped ==
    /\ \A l \in LogLines : C17_Lacking(l.raw) => (~l.touched /\ ~l.admitted)
    /\ \A k \in 1..Len(ev.passed) : ~C17_Lacking(ev.passed[k])
    /\ "" \notin seen_urls

\* C17 witness: one batch with an article lacking a field and an admitted one.
C17_Witness ==
    \E l, m \in LogLines : C17_Lacking(l.raw) /\ m.admitted

\* The articles the last dedup loop admitted, in the order of the batch.
C18_Admitted ==
    LET adm == SelectSeq(ev.log, LAMBDA l : l.admitted)
    IN  [i \in 1..Len(adm) |-> adm[i].raw]

\* C18: a poller waits for classify_news_batch only as the next thing after
\* a fetch (once per process_articles_batch call); the fetch step leads there
\* exactly when its dedup loop admitted something, and the list it gives is
\* the admitted articles in batch order.
C18_OneGatewayCall ==
    [][\A p \in Pollers :
          /\ (pc'[p] = "classify" /\ pc[p] # "classify") => pc[p] = "fetch"
          /\ (pc[p] = "fetch" /\ pc'[p] \in {"classify", "sleep"}) =>
                /\ (pc'[p] = "classify") <=> (C18_Admitted' # <<>>)
                /\ pc'[p] = "classify" => frame'[p].na = C18_Admitted']_vars

\* C18 witness: the gateway has been called with two admitted articles.
C18_Witness ==
    \E p \in Pollers :
        pc[p] = "classify" /\ ev.invoked /\ Len(frame[p].na) >= 2

\* C19: a configure request for OpenAI without a client gets an error result
\* and leaves USE_OPENAI as it was; any other request gets a success result
\* and sets USE_OPENAI to what it asked; no request touches a poller; and once
\* a request has set the flag, every classification call that starts uses the
\* backend USE_OPENAI names.
C19_Toggle ==
    [][/\ (configs' # configs) =>
              /\ (ev'.request = "openai" /\ ~openai_client) =>
                     (ev'.result = "error" /\ USE_OPENAI' = USE_OPENAI)
              /\ ~(ev'.request = "openai" /\ ~openai_client) =>
                     /\ ev'.result = "success"
                     /\ USE_OPENAI' = (ev'.request = "openai")
              /\ pc' = pc /\ frame' = frame
       /\ \A p \in Pollers :
              (pc[p] = "fetch" /\ pc'[p] = "classify" /\ hist.configured) =>
                  frame'[p].backend = IF USE_OPENAI THEN "openai" ELSE "llama"]_vars

\* C19 witness: without a client, a request has switched to Llama, a poller
\* has started a classification with Llama, and a request for OpenAI has just
\* been answered with an error.
C19_Witness ==
    /\ ev.result = "error" /\ hist.configured
    /\ \E p \in Pollers : pc[p] = "classify" /\ frame[p].backend = "llama"

\* C20: manager.disconnect for a websocket that is not in active_connections
\* ends normally and leaves active_connections as it was.
C20_DisconnectIdempotent ==
    [][\A c \in Conns :
          (ws[c] = "open" /\ ws'[c] # "open" /\ c \notin active_connections) =>
              /\ ws'[c] = "closed"
              /\ active_connections' = active_connections]_vars

\* C20 witness: a subscriber that a broadcast had already removed has
\* disconnected.
C20_Witness ==
    ev.gone # 0 /\ ev.absent /\ ws[ev.gone] = "closed"

\* C21 as claimed: once the lifespan's shutdown has completed, no subscriber
\* is left in active_connections and no websocket is open.
C21_Claim ==
    lifespan = "complete" =>
        /\ active_connections = {}
        /\ \A c \in Conns : ws[c] # "open"

\* C22: an article the dedup loop rejects (lacking a field, URL seen, content
\* seen) leaves both seen sets as its pass through the loop found them.
C22_RejectLeavesSeenState ==
    \A l \in LogLines : ~l.admitted => ~l.touched

\* C22 witness: one dedup pass has turned away both an article with a seen URL
\* and new content, and an article with seen content and a new URL.
C22_Witness ==
    \E l, m \in LogLines :
        /\ l.valid /\ l.urlSeen /\ ~l.fpSeen /\ ~l.admitted
        /\ m.valid /\ ~m.urlSeen /\ m.fpSeen /\ ~m.admitted

\* C23: in every state the number of seen URLs, the number of seen
\* fingerprints and the number of admissions so far are equal (so the status
\* operation's seen_articles and content_hashes agree), and no step takes an
\* element out of either set.
C23_CountsAgree ==
    /\ [](/\ Cardinality(seen_urls) = Len(admitted)
          /\ Cardinality(seen_content_hashes) = Len(admitted))
    /\ [][/\ seen_urls \subseteq seen_urls'
          /\ seen_content_hashes \subseteq seen_content_hashes']_vars

\* C23 witness: two admissions so far, and the last dedup pass turned a valid
\* article away.
C23_Witness ==
    /\ Len(admitted) >= 2
    /\ \E l \in LogLines : l.valid /\ ~l.admitted
====
